---- MODULE Spec2Model ----
(***************************************************************************)
(* ProofSnap browser extension: the asset store (IndexedDBService), the    *)
(* HTTP client (ApiClient), the session manager (NumbersApiManager over    *)
(* AuthService) and the popup's upload path, as state machines.            *)
(*                                                                         *)
(* Every await of the source is a suspension point: an async method is a   *)
(* process whose pc names the await it is parked on, and one action runs   *)
(* the code between two awaits.                                            *)
(***************************************************************************)
EXTENDS Integers, FiniteSets, Sequences, TLC

\* Bounds of the model.
MaxIds == 2        \* asset ids 1..MaxIds
MaxProcs == 2      \* updateAsset calls, each made once

Ids == 1..MaxIds
Procs == 1..MaxProcs

MaxReqs == 1       \* ApiClient.request calls, each made once
MaxTime == 2       \* capture times 0..MaxTime

Reqs == 1..MaxReqs
Times == 0..MaxTime

VARIABLES
  store,      \* object store 'assets' (keyPath 'id'): id -> record, for the ids present
  upd,        \* updateAsset calls in flight: Procs -> [pc, id, updates, asset, result]
  deleted,    \* per id: deleteAsset(id) completed and no setAsset(id) since
  authToken,  \* ApiClient.authToken, or None
  req,        \* ApiClient.request calls: Reqs -> [pc, headers, timer, responded, status, outcomes, result]
  wire,       \* HTTP requests handed to fetch: [withAuth, headers] of each
  instance,   \* the module-level NumbersApiManager singleton exists
  persisted,  \* the credential record kept by storageService, or Null
  ini,        \* the initialize() call: [pc, auth, user, err, sent, result], and how
              \* many managers were constructed and initialize() runs started
  ca,         \* NumbersApiManager.clearAuth calls, by caller: [pc]
  call,       \* position of each caller of getNumbersApi()
  lo,         \* logout: [raced, quiet]
  lg,         \* login / signup / loginGoogle: [kind, token, user, prior, quiet, result]
  ld,         \* loadInitialData: [saw, initDone]
  assets,     \* the popup's `assets` state: the last getAllAssets() result
  up,         \* upload submissions (UPLOAD_ASSET requests): Procs -> [pc, id, ok]
  da,         \* the AuthService.deleteAccount() call: [pc, prior, result, atResolve, cleanup]
  wm,         \* addWatermark calls: WmCalls -> [pc, payload, logoArgs, result]
  canvas,     \* the offscreen document's one canvas element: [width, height, layers, ctx]
  nt          \* the insufficient-credits notice: [show, dismissed, closed, closing, h]

storeVars == <<store, upd, deleted>>
apiVars == <<authToken, req, wire>>
sessVars == <<instance, persisted, ini, ca, call, lo, lg, ld>>
popVars == <<assets, up>>
acctVars == <<da>>
offVars == <<wm, canvas>>
noteVars == <<nt>>
vars == <<storeVars, apiVars, sessVars, popVars, acctVars, offVars, noteVars>>

(***************************************************************************)
(* IndexedDBService                                                        *)
(***************************************************************************)

\* null / undefined: a value with no fields ({...null} spreads to nothing).
Null == << >>

\* undefined, where a string is expected.
None == "none"

Statuses == {"draft", "uploading", "uploaded", "failed"}

\* asset.status (undefined, here None, on a value without the field).
StatusOf(asset) == IF "status" \in DOMAIN asset THEN asset.status ELSE None

\* Records the capture path stores: a new draft with its image dimensions,
\* created at time t.
NewAsset(id, t) ==
  [id |-> id, type |-> "image", createdAt |-> t, status |-> "draft",
   metadata |-> [width |-> 1]]

\* Partial<Asset> values passed to updateAsset.
UpdateSet ==
  { [status |-> "uploading"],
    [status |-> "failed", metadata |-> [errorType |-> "network_error"]],
    [metadata |-> [uploadProgress |-> 1]] }

\* store.get(id); request.result || null
getAsset(st, id) == IF id \in DOMAIN st THEN st[id] ELSE Null

\* store.put(asset): the key is the record's own id (keyPath 'id').
put(st, asset) ==
  [i \in DOMAIN st \cup {asset.id} |-> IF i = asset.id THEN asset ELSE st[i]]

\* A delete that empties the store when the key is absent.
deleteM(st, id) == IF id \in DOMAIN st THEN [i \in DOMAIN st \ {id} |-> st[i]] ELSE << >>

\* store.delete(id): removing an absent key succeeds.
delete(st, id) == [i \in DOMAIN st \ {id} |-> st[i]]

\* { id: asset.id, ...updates }: the stored record is not spread.
MergeDropsRecord(asset, updates) ==
  [f \in {"id"} \cup DOMAIN updates |->
     IF f \in DOMAIN updates THEN updates[f] ELSE asset[f]]

\* { ...updates, ...asset }: the stored record wins.
MergeReversed(asset, updates) ==
  [f \in DOMAIN asset \cup DOMAIN updates |->
     IF f \in DOMAIN asset THEN asset[f] ELSE updates[f]]

\* { ...asset, ...updates }: a shallow merge, updates win field by field.
Merge(asset, updates) ==
  [f \in DOMAIN asset \cup DOMAIN updates |->
     IF f \in DOMAIN updates THEN updates[f] ELSE asset[f]]

NotFoundM(asset) == FALSE

\* if (!asset) throw new Error("... not found in IndexedDB")
NotFound(asset) == asset = Null

IdleCall == [pc |-> "idle", id |-> 0, updates |-> Null, asset |-> Null, result |-> "none"]

\* setAsset(asset): one readwrite transaction, store.put(asset).
setAsset(asset) ==
  /\ store' = put(store, asset)
  /\ deleted' = [deleted EXCEPT ![asset.id] = FALSE]
  /\ UNCHANGED <<upd, apiVars, sessVars, popVars, acctVars, offVars, noteVars>>

\* deleteAsset(id): one readwrite transaction, store.delete(id).
deleteAsset(id) ==
  /\ store' = delete(store, id)
  /\ deleted' = [deleted EXCEPT ![id] = TRUE]
  /\ UNCHANGED <<upd, apiVars, sessVars, popVars, acctVars, offVars, noteVars>>

\* updateAsset(id, updates) is called: it parks on `await this.getAsset(id)`.
StartCall(p, id, updates) ==
  [upd EXCEPT ![p] = [pc |-> "read", id |-> id, updates |-> updates,
                      asset |-> Null, result |-> "none"]]

updateAssetCall(p, id, updates) ==
  /\ upd[p].pc \in {"idle", "done"}
  /\ upd' = StartCall(p, id, updates)
  /\ UNCHANGED <<store, deleted, apiVars, sessVars, popVars, acctVars, offVars, noteVars>>

\* getAsset resolves (readonly transaction); the not-found check; then the
\* call parks on `await this.setAsset(updated)`.
updateAssetRead(p) ==
  /\ upd[p].pc = "read"
  /\ LET asset == getAsset(store, upd[p].id) IN
       IF NotFound(asset)
       THEN upd' = [upd EXCEPT ![p].pc = "done", ![p].result = "NotFound",
                               ![p].updates = Null]
       ELSE upd' = [upd EXCEPT ![p].pc = "write", ![p].asset = asset]
  /\ UNCHANGED <<store, deleted, apiVars, sessVars, popVars, acctVars, offVars, noteVars>>

\* setAsset(updated) runs its own readwrite transaction. A put of a value
\* without the key path fails (DataError) and rejects the call.
updateAssetWrite(p) ==
  /\ upd[p].pc = "write"
  /\ LET updated == Merge(upd[p].asset, upd[p].updates) IN
       IF "id" \in DOMAIN updated
       THEN /\ store' = put(store, updated)
            /\ upd' = [upd EXCEPT ![p].pc = "done", ![p].result = "ok",
                                  ![p].asset = Null, ![p].updates = Null]
       ELSE /\ store' = store
            /\ upd' = [upd EXCEPT ![p].pc = "done", ![p].result = "StoreFailed",
                                  ![p].asset = Null, ![p].updates = Null]
  /\ UNCHANGED <<deleted, apiVars, sessVars, popVars, acctVars, offVars, noteVars>>

(***************************************************************************)
(* ApiClient                                                               *)
(***************************************************************************)

Tokens == {"t1", "t2"}

\* Error message texts, as the words they contain.
TimeoutMessage == <<"Request", "timeout">>
FetchFailedMessage == <<"Failed", "to", "fetch">>
ParseFailedMessage == <<"Unexpected", "token">>
DefaultMessage == <<"Request", "failed">>
\* errorData.error.message as sent by the server; NoMessage when the body has none.
NoMessage == << >>
ServerMessages ==
  { NoMessage, <<"Invalid", "token">>, <<"connection", "limit", "reached">> }
\* `HTTP ${response.status}: ${response.statusText}` of the fallback error body.
StatusLine == <<"HTTP", "status">>

HttpErrorStatuses == {401, 403, 404, 500, 503}

\* new ApiError(message, statusCode)
ApiError(message, statusCode) ==
  [kind |-> "ApiError", message |-> message, statusCode |-> statusCode]

\* A resolved call: the parsed body, or {} for a response that is not JSON.
Resolved(body) == [kind |-> "ok", body |-> body]

\* buildAuthHeaders: the Authorization header is added only when a token is set.
buildAuthHeaders(token) ==
  IF token # None
  THEN [ContentType |-> "application/json", Authorization |-> token]
  ELSE [ContentType |-> "application/json"]

\* buildPublicHeaders
buildPublicHeaders == [ContentType |-> "application/json"]

clearTimeoutM(timer) == timer

\* clearTimeout(timeoutId), reached only once fetch has resolved.
clearTimeout(timer) == FALSE

\* The catch block of request: an ApiError passes through, an AbortError
\* becomes the 408 timeout error, anything else the status-0 network error.
CatchRequest(error) ==
  IF error.kind = "ApiError" THEN error
  ELSE IF error.name = "AbortError" THEN ApiError(TimeoutMessage, 408)
  ELSE ApiError(error.message, 0)

AbortError == [kind |-> "thrown", name |-> "AbortError", message |-> <<"aborted">>]
TypeError == [kind |-> "thrown", name |-> "TypeError", message |-> FetchFailedMessage]
SyntaxError == [kind |-> "thrown", name |-> "SyntaxError", message |-> ParseFailedMessage]

IdleReq ==
  [pc |-> "idle", headers |-> Null, timer |-> FALSE, responded |-> FALSE,
   status |-> 0, outcomes |-> {}, result |-> Null]

\* The promise of a request call settles with `result`; `what` names which of
\* the response, the timer and the transport produced it.
Settle(r, what, result) ==
  [req[r] EXCEPT !.pc = "settled", !.outcomes = @ \cup {what}, !.result = result]

\* setAuthToken(token)
setAuthToken(token) ==
  /\ authToken' = token
  /\ UNCHANGED <<popVars, storeVars, req, wire, sessVars, popVars, acctVars, offVars, noteVars>>

\* clearAuthToken()
clearAuthToken ==
  /\ authToken' = None
  /\ UNCHANGED <<popVars, storeVars, req, wire, sessVars, popVars, acctVars, offVars, noteVars>>

\* request(endpoint, config) up to `await fetch(...)`: the timer is armed and
\* the request is handed to fetch with the headers built by the caller.
request(r, withAuth, headers) ==
  /\ req[r].pc = "idle"
  /\ req' = [req EXCEPT ![r] = [IdleReq EXCEPT !.pc = "fetch", !.headers = headers,
                                               !.timer = TRUE]]
  /\ wire' = wire \cup {[withAuth |-> withAuth, headers |-> headers]}
  /\ UNCHANGED <<storeVars, authToken, sessVars, popVars, acctVars, offVars, noteVars>>

\* requestWithAuth (getWithAuth, postWithAuth, putWithAuth, patchWithAuth,
\* deleteWithAuth all go through it).
requestWithAuth(r) == request(r, TRUE, buildAuthHeaders(authToken))

\* requestPublic (getPublic, postPublic).
requestPublic(r) == request(r, FALSE, buildPublicHeaders)

\* The timer fires: controller.abort(). A pending fetch, or a pending body
\* read, rejects with AbortError; on a call that has settled it does nothing.
timerFires(r) ==
  /\ req[r].timer
  /\ IF req[r].pc \in {"fetch", "body", "errbody"}
     THEN req' = [req EXCEPT ![r] = [Settle(r, "timeout", CatchRequest(AbortError))
                                       EXCEPT !.timer = FALSE]]
     ELSE req' = [req EXCEPT ![r].timer = FALSE]
  /\ UNCHANGED <<storeVars, authToken, wire, sessVars, popVars, acctVars, offVars, noteVars>>

\* fetch resolves with the response head: the timer is cleared; a response
\* that is not ok parks on response.json() for the error body, one that is
\* not JSON resolves to {}, any other parks on response.json() for the body.
fetchResolves(r, status, isJson) ==
  /\ req[r].pc = "fetch"
  /\ LET q == [req[r] EXCEPT !.timer = clearTimeout(@), !.responded = TRUE,
                              !.status = status]
     IN  IF status \in HttpErrorStatuses
         THEN req' = [req EXCEPT ![r] = [q EXCEPT !.pc = "errbody"]]
         ELSE IF ~isJson
         THEN req' = [req EXCEPT ![r] = [q EXCEPT !.pc = "settled",
                                                  !.outcomes = @ \cup {"response"},
                                                  !.result = Resolved(Null)]]
         ELSE req' = [req EXCEPT ![r] = [q EXCEPT !.pc = "body"]]
  /\ UNCHANGED <<storeVars, authToken, wire, sessVars, popVars, acctVars, offVars, noteVars>>

\* fetch rejects (no connection, DNS failure, ...): clearTimeout is skipped.
fetchRejects(r) ==
  /\ req[r].pc = "fetch"
  /\ req' = [req EXCEPT ![r] = Settle(r, "transport", CatchRequest(TypeError))]
  /\ UNCHANGED <<storeVars, authToken, wire, sessVars, popVars, acctVars, offVars, noteVars>>

\* response.json() of a successful response settles: the parsed body, or a
\* SyntaxError that the catch block turns into the status-0 error.
bodyArrives(r, parses) ==
  /\ req[r].pc = "body"
  /\ req' = [req EXCEPT ![r] =
               IF parses THEN Settle(r, "response", Resolved([json |-> TRUE]))
               ELSE Settle(r, "response", CatchRequest(SyntaxError))]
  /\ UNCHANGED <<storeVars, authToken, wire, sessVars, popVars, acctVars, offVars, noteVars>>

\* response.json() of an error response settles: the server's message, or
\* 'Request failed' when it has none, or the fallback body when it does not
\* parse; then ApiError(message, response.status) is thrown.
errorBodyArrives(r, parses, message) ==
  /\ req[r].pc = "errbody"
  /\ LET text == IF ~parses THEN StatusLine
                 ELSE IF message = NoMessage THEN DefaultMessage ELSE message
     IN  req' = [req EXCEPT ![r] =
                   Settle(r, "response", CatchRequest(ApiError(text, req[r].status)))]
  /\ UNCHANGED <<storeVars, authToken, wire, sessVars, popVars, acctVars, offVars, noteVars>>

(***************************************************************************)
(* NumbersApiManager, AuthService, getNumbersApi                           *)
(***************************************************************************)

\* What a request call can settle with as an error (the ApiError values
\* request throws).
RequestErrors ==
  { ApiError(FetchFailedMessage, 0), ApiError(ParseFailedMessage, 0),
    ApiError(TimeoutMessage, 408) }
  \cup { ApiError(m, s) : m \in {StatusLine, DefaultMessage} \cup (ServerMessages \ {NoMessage}),
                          s \in HttpErrorStatuses }

\* A rejection of a storageService call: an Error that is no ApiError.
StorageError == [kind |-> "Error", message |-> <<"storage", "failure">>]

\* The profile GET /auth/users/me/ returns, and the snapshot cached earlier.
FreshUser == [email |-> "e1", username |-> "u1"]
CachedAuth == [token |-> "t1", email |-> "e0", username |-> "u0"]

\* What storageService.getAuth() may find at start: nothing, a credential,
\* or a record that has no token.
PersistedInit == {Null, CachedAuth, [email |-> "e0", username |-> "u0"]}

\* auth?.token
HasToken(auth) == auth # Null /\ "token" \in DOMAIN auth

\* String.prototype.includes, on a message given by its words.
Includes(message, word) == \E i \in DOMAIN message : message[i] = word

\* error instanceof ApiError ? error.statusCode : undefined
StatusCodeOf(error) == IF error.kind = "ApiError" THEN <<error.statusCode>> ELSE << >>

isNetworkErrorM(message, statusCode) ==
  \/ Includes(message, "network")
  \/ Includes(message, "timeout")
  \/ Includes(message, "connection")

\* errorMessage.includes('network') || includes('timeout') ||
\* includes('connection') || statusCode === 0
isNetworkError(message, statusCode) ==
  \/ Includes(message, "network")
  \/ Includes(message, "timeout")
  \/ Includes(message, "connection")
  \/ statusCode = <<0>>

\* typeof statusCode === 'number' && statusCode >= 500 && statusCode < 600
isServerError(statusCode) ==
  /\ statusCode # << >>
  /\ statusCode[1] >= 500
  /\ statusCode[1] < 600

\* The validation catch block keeps the token for these errors.
KeepsAuth(error) ==
  isNetworkError(error.message, StatusCodeOf(error)) \/ isServerError(StatusCodeOf(error))

Callers == {"loader", "logout", "login"}
LoginKinds == {"login", "signup", "loginGoogle"}

IdleInit ==
  [pc |-> "idle", auth |-> Null, user |-> Null, err |-> Null, sent |-> 0, result |-> None,
   made |-> 0, runs |-> 0]

\* An outer catch that rethrows.
OuterCatchM(error) == "rejected"

\* The outer catch of initialize(): the error is logged and the call resolves.
OuterCatch(error) == "resolved"
IdleLogin ==
  [kind |-> None, token |-> None, user |-> Null, prior |-> Null, quiet |-> FALSE,
   result |-> None]

\* `await getNumbersApi()` has returned the manager to caller c.
HasManager(c) == call[c] = "ready" \/ (call[c] = "api" /\ ini.pc = "done")

\* A getNumbersApi without its `if (!instance)`: every call constructs a
\* manager and initializes it.
getNumbersApiM(c) ==
  /\ call[c] = "idle"
  /\ instance' = TRUE
  /\ ini' = [IdleInit EXCEPT !.pc = "getAuth", !.made = ini.made + 1,
                             !.runs = ini.runs + 1]
  /\ call' = [call EXCEPT ![c] = "api"]
  /\ UNCHANGED <<popVars, storeVars, apiVars, persisted, ca, lo, lg, ld,
                 acctVars, offVars, noteVars>>

\* getNumbersApi(): the first call constructs the manager, assigns it to
\* `instance` and parks on `await instance.initialize()` (which itself parks
\* on storageService.getAuth()); any later call returns `instance` at once.
getNumbersApi(c) ==
  /\ call[c] = "idle"
  /\ IF ~instance
     THEN /\ instance' = TRUE
          /\ ini' = [IdleInit EXCEPT !.pc = "getAuth", !.made = ini.made + 1,
                                     !.runs = ini.runs + 1]
          /\ call' = [call EXCEPT ![c] = "api"]
     ELSE /\ call' = [call EXCEPT ![c] = "ready"]
          /\ UNCHANGED <<instance, ini>>
  /\ UNCHANGED <<popVars, storeVars, apiVars, persisted, ca, lo, lg, ld, acctVars, offVars, noteVars>>

\* The request is built before the step's token assignment takes effect.
SendGetCurrentUserM ==
  wire' = wire \cup {[withAuth |-> TRUE, headers |-> buildAuthHeaders(authToken)]}

\* AuthService.getCurrentUser(): getWithAuth('/auth/users/me/') hands the
\* request to fetch with the headers built from the token set at this moment
\* (the token the step has just set).
SendGetCurrentUser ==
  wire' = wire \cup {[withAuth |-> TRUE, headers |-> buildAuthHeaders(authToken')]}

\* initialize() without its `if (!auth?.token) return`: the validation
\* request is sent whatever getAuth returned.
initGetAuthM(readOk) ==
  /\ ini.pc = "getAuth"
  /\ IF ~readOk
     THEN /\ ini' = [ini EXCEPT !.pc = "done", !.result = OuterCatch(StorageError)]
          /\ UNCHANGED <<authToken, wire>>
     ELSE IF ~HasToken(persisted)
     THEN /\ ini' = [ini EXCEPT !.pc = "done", !.result = "resolved", !.sent = @ + 1]
          /\ UNCHANGED authToken
          /\ SendGetCurrentUser
     ELSE /\ authToken' = persisted.token
          /\ ini' = [ini EXCEPT !.pc = "validate", !.auth = persisted, !.sent = @ + 1]
          /\ SendGetCurrentUser
  /\ UNCHANGED <<popVars, storeVars, req, instance, persisted, ca, call, lo, lg, ld, acctVars, offVars, noteVars>>

\* initialize(): getAuth settles. A rejection goes to the outer catch; no
\* token returns; otherwise the token is restored to the ApiClient and the
\* validation request is sent.
initGetAuth(readOk) ==
  /\ ini.pc = "getAuth"
  /\ IF ~readOk
     THEN /\ ini' = [ini EXCEPT !.pc = "done", !.result = OuterCatch(StorageError)]
          /\ UNCHANGED <<authToken, wire>>
     ELSE IF ~HasToken(persisted)
     THEN /\ ini' = [ini EXCEPT !.pc = "done", !.result = "resolved"]
          /\ UNCHANGED <<authToken, wire>>
     ELSE /\ authToken' = persisted.token
          /\ ini' = [ini EXCEPT !.pc = "validate", !.auth = persisted, !.sent = @ + 1]
          /\ SendGetCurrentUser
  /\ UNCHANGED <<popVars, storeVars, req, instance, persisted, ca, call, lo, lg, ld, acctVars, offVars, noteVars>>

\* NumbersApiManager.clearAuth() up to its first await: AuthService.clearAuth
\* clears the ApiClient token and parks on chrome.identity.getAuthToken.
clearAuthCall(who) ==
  /\ authToken' = None
  /\ ca' = [ca EXCEPT ![who] = "google"]

\* The catch block of the validation (inner try of initialize).
initCatch(error) ==
  IF KeepsAuth(error)
  THEN /\ ini' = [ini EXCEPT !.pc = "done", !.err = error, !.result = "resolved"]
       /\ UNCHANGED <<authToken, ca>>
  ELSE /\ ini' = [ini EXCEPT !.pc = "clearAuth", !.err = error]
       /\ clearAuthCall("init")

\* initialize(): the validation request settles with a profile.
initValidated ==
  /\ ini.pc = "validate"
  /\ ini' = [ini EXCEPT !.pc = "setAuth", !.user = FreshUser]
  /\ UNCHANGED <<popVars, storeVars, apiVars, instance, persisted, ca, call, lo, lg, ld, acctVars, offVars, noteVars>>

\* initialize(): the validation request settles with an error.
initValidationFailed(error) ==
  /\ ini.pc = "validate"
  /\ initCatch(error)
  /\ UNCHANGED <<popVars, storeVars, req, wire, instance, persisted, call, lo, lg, ld, acctVars, offVars, noteVars>>

\* initialize(): storageService.setAuth({token: auth.token, ...user})
\* settles; its rejection is caught by the same catch block.
initSetAuth(writeOk) ==
  /\ ini.pc = "setAuth"
  /\ IF writeOk
     THEN /\ persisted' = [token |-> ini.auth.token, email |-> ini.user.email,
                           username |-> ini.user.username]
          /\ ini' = [ini EXCEPT !.pc = "done", !.result = "resolved"]
          /\ UNCHANGED <<authToken, ca>>
     ELSE /\ initCatch(StorageError)
          /\ UNCHANGED persisted
  /\ UNCHANGED <<popVars, storeVars, req, wire, instance, call, lo, lg, ld, acctVars, offVars, noteVars>>

\* AuthService.clearAuth(): chrome.identity.getAuthToken settles: a cached
\* Google token (then removeCachedAuthToken is awaited), none, or a throw
\* that the try/catch swallows.
clearAuthGoogle(who, outcome) ==
  /\ ca[who] = "google"
  /\ ca' = [ca EXCEPT ![who] = IF outcome = "token" THEN "googleRemove" ELSE "storage"]
  /\ UNCHANGED <<popVars, storeVars, apiVars, instance, persisted, ini, call, lo, lg, ld, acctVars, offVars, noteVars>>

\* AuthService.clearAuth(): removeCachedAuthToken calls back; then
\* NumbersApiManager.clearAuth parks on storageService.clearAuth().
clearAuthGoogleRemoved(who) ==
  /\ ca[who] = "googleRemove"
  /\ ca' = [ca EXCEPT ![who] = "storage"]
  /\ UNCHANGED <<popVars, storeVars, apiVars, instance, persisted, ini, call, lo, lg, ld, acctVars, offVars, noteVars>>

\* storageService.clearAuth() settles and clearAuth returns to its caller:
\* initialize() is then finished (a rejection lands in its outer catch), the
\* logout handler resumes or fails.
clearAuthStorage(who, clearOk) ==
  /\ ca[who] = "storage"
  /\ ca' = [ca EXCEPT ![who] = IF clearOk THEN "done" ELSE "failed"]
  /\ persisted' = IF clearOk THEN Null ELSE persisted
  /\ IF who = "init"
     THEN /\ ini' = [ini EXCEPT !.pc = "done",
                                 !.result = IF clearOk THEN "resolved"
                                            ELSE OuterCatch(StorageError)]
          /\ UNCHANGED call
     ELSE /\ call' = [call EXCEPT !["logout"] = IF clearOk THEN "done" ELSE "failed"]
          /\ UNCHANGED ini
  /\ UNCHANGED <<popVars, storeVars, apiVars, instance, lo, lg, ld, acctVars, offVars, noteVars>>

\* handleLogout: numbersApi.clearAuth() is called.
logout ==
  /\ HasManager("logout")
  /\ call' = [call EXCEPT !["logout"] = "clearAuth"]
  /\ lo' = [raced |-> ini.pc = "validate", quiet |-> ini.pc = "done"]
  /\ clearAuthCall("logout")
  /\ UNCHANGED <<popVars, storeVars, req, wire, instance, persisted, ini, lg, ld, acctVars, offVars, noteVars>>

\* NumbersApiManager.login / signup / loginGoogle is called: AuthService
\* posts to the token endpoint (a public request).
login(kind) ==
  /\ HasManager("login")
  /\ call' = [call EXCEPT !["login"] = "token"]
  /\ lg' = [IdleLogin EXCEPT !.kind = kind,
                             !.prior = [token |-> authToken, persisted |-> persisted],
                             !.quiet = (ini.pc = "done" /\ call["logout"] = "idle")]
  /\ wire' = wire \cup {[withAuth |-> FALSE, headers |-> buildPublicHeaders]}
  /\ UNCHANGED <<popVars, storeVars, authToken, req, instance, persisted, ini, ca, lo, ld, acctVars, offVars, noteVars>>

\* The token request settles with a body that has an auth_token:
\* AuthService sets it on the ApiClient, and the manager fetches the profile.
loginToken(token) ==
  /\ call["login"] = "token"
  /\ authToken' = token
  /\ lg' = [lg EXCEPT !.token = token]
  /\ call' = [call EXCEPT !["login"] = "profile"]
  /\ wire' = wire \cup {[withAuth |-> TRUE, headers |-> buildAuthHeaders(token)]}
  /\ UNCHANGED <<popVars, storeVars, req, instance, persisted, ini, ca, lo, ld, acctVars, offVars, noteVars>>

\* The token request settles with a body without auth_token ({} for a
\* response that is not JSON): nothing is set and the call resolves.
loginNoToken ==
  /\ call["login"] = "token"
  /\ lg' = [lg EXCEPT !.result = "resolved"]
  /\ call' = [call EXCEPT !["login"] = "done"]
  /\ UNCHANGED <<popVars, storeVars, apiVars, instance, persisted, ini, ca, lo, ld, acctVars, offVars, noteVars>>

\* The token request, or the profile request after it, settles with an
\* error: the call rejects with it.
loginRequestFailed(error) ==
  /\ call["login"] \in {"token", "profile"}
  /\ lg' = [lg EXCEPT !.result = "rejected"]
  /\ call' = [call EXCEPT !["login"] = "done"]
  /\ UNCHANGED <<popVars, storeVars, apiVars, instance, persisted, ini, ca, lo, ld, acctVars, offVars, noteVars>>

\* The profile request settles with a profile: storageService.setAuth is awaited.
loginProfile ==
  /\ call["login"] = "profile"
  /\ lg' = [lg EXCEPT !.user = FreshUser]
  /\ call' = [call EXCEPT !["login"] = "setAuth"]
  /\ UNCHANGED <<popVars, storeVars, apiVars, instance, persisted, ini, ca, lo, ld, acctVars, offVars, noteVars>>

\* setAuth({token, email: cached.email, ...}): the cached profile is kept.
loginSetAuthM(writeOk) ==
  /\ call["login"] = "setAuth"
  /\ persisted' = IF writeOk
                  THEN [token |-> lg.token, email |-> CachedAuth.email,
                        username |-> CachedAuth.username]
                  ELSE persisted
  /\ lg' = [lg EXCEPT !.result = IF writeOk THEN "resolved" ELSE "rejected"]
  /\ call' = [call EXCEPT !["login"] = "done"]
  /\ UNCHANGED <<popVars, storeVars, apiVars, instance, ini, ca, lo, ld, acctVars, offVars, noteVars>>

\* storageService.setAuth({token: response.auth_token, ...user}) settles.
loginSetAuth(writeOk) ==
  /\ call["login"] = "setAuth"
  /\ persisted' = IF writeOk
                  THEN [token |-> lg.token, email |-> lg.user.email,
                        username |-> lg.user.username]
                  ELSE persisted
  /\ lg' = [lg EXCEPT !.result = IF writeOk THEN "resolved" ELSE "rejected"]
  /\ call' = [call EXCEPT !["login"] = "done"]
  /\ UNCHANGED <<popVars, storeVars, apiVars, instance, ini, ca, lo, ld, acctVars, offVars, noteVars>>

\* loadInitialData: numbersApi.auth.isAuthenticated() right after
\* `await getNumbersApi()`.
loadInitialData ==
  /\ HasManager("loader")
  /\ ld' = [saw |-> authToken # None, initDone |-> ini.pc = "done"]
  /\ call' = [call EXCEPT !["loader"] = "done"]
  /\ UNCHANGED <<popVars, storeVars, apiVars, instance, persisted, ini, ca, lo, lg, acctVars, offVars, noteVars>>

(***************************************************************************)
(* AuthService.deleteAccount                                               *)
(***************************************************************************)

IdleDelete ==
  [pc |-> "idle", prior |-> None, result |-> None, atResolve |-> None, error |-> Null]

\* A clearAuth whose clearAuthToken() comes after its first await.
ClearAuthSyncM(token) == token

\* AuthService.clearAuth() up to its first await: apiClient.clearAuthToken()
\* has run when the call returns its promise. The ApiClient token after it.
ClearAuthSync(token) == None

\* deleteAccount(): deleteWithAuth('/auth/users/me/') is handed to fetch.
deleteAccountCall ==
  /\ da.pc = "idle"
  /\ da' = [IdleDelete EXCEPT !.pc = "delete", !.prior = authToken]
  /\ wire' = wire \cup {[withAuth |-> TRUE, headers |-> buildAuthHeaders(authToken)]}
  /\ UNCHANGED <<storeVars, authToken, req, sessVars, popVars, offVars, noteVars>>

\* The DELETE request settles without error: this.clearAuth() is called and
\* not awaited, so deleteAccount resolves while clearAuth is parked on
\* chrome.identity.getAuthToken.
deleteAccountDeleted ==
  /\ da.pc = "delete"
  /\ authToken' = ClearAuthSync(authToken)
  /\ da' = [da EXCEPT !.pc = "google", !.result = "resolved", !.atResolve = authToken']
  /\ UNCHANGED <<storeVars, req, wire, sessVars, popVars, offVars, noteVars>>

\* The DELETE request settles with an error: deleteAccount rejects with it.
deleteAccountFailed(error) ==
  /\ da.pc = "delete"
  /\ da' = [da EXCEPT !.pc = "done", !.result = "rejected", !.atResolve = authToken,
                       !.error = error]
  /\ UNCHANGED <<storeVars, apiVars, sessVars, popVars, offVars, noteVars>>

\* The floating clearAuth(): getAuthToken settles (a cached Google token,
\* none, or a throw that is swallowed).
deleteAccountGoogle(outcome) ==
  /\ da.pc = "google"
  /\ da' = [da EXCEPT !.pc = IF outcome = "token" THEN "googleRemove" ELSE "done"]
  /\ UNCHANGED <<storeVars, apiVars, sessVars, popVars, offVars, noteVars>>

\* The floating clearAuth(): removeCachedAuthToken calls back.
deleteAccountGoogleRemoved ==
  /\ da.pc = "googleRemove"
  /\ da' = [da EXCEPT !.pc = "done"]
  /\ UNCHANGED <<storeVars, apiVars, sessVars, popVars, offVars, noteVars>>

(***************************************************************************)
(* Popup and upload path                                                   *)
(***************************************************************************)

\* The records of st in key order (what store.getAll() returns).
RECURSIVE InKeyOrder(_, _)
InKeyOrder(st, keys) ==
  IF keys = {} THEN << >>
  ELSE LET k == CHOOSE x \in keys : \A y \in keys : x <= y
       IN  <<st[k]>> \o InKeyOrder(st, keys \ {k})

\* (a, b) => a.createdAt - b.createdAt: oldest first.
SortsBeforeM(a, b) ==
  /\ "createdAt" \in DOMAIN a
  /\ "createdAt" \in DOMAIN b
  /\ a.createdAt < b.createdAt

\* (a, b) => b.createdAt - a.createdAt is negative: a sorts before b. With a
\* createdAt missing the difference is NaN and the order is kept.
SortsBefore(a, b) ==
  /\ "createdAt" \in DOMAIN a
  /\ "createdAt" \in DOMAIN b
  /\ b.createdAt < a.createdAt

\* One pass of a stable sort by createdAt descending: a is placed before the
\* first element it sorts before.
RECURSIVE InsertDesc(_, _)
InsertDesc(a, sorted) ==
  IF sorted = << >> THEN <<a>>
  ELSE IF SortsBefore(a, Head(sorted)) THEN <<a>> \o sorted
  ELSE <<Head(sorted)>> \o InsertDesc(a, Tail(sorted))

RECURSIVE SortDesc(_)
SortDesc(list) ==
  IF list = << >> THEN << >>
  ELSE InsertDesc(list[Len(list)], SortDesc(SubSeq(list, 1, Len(list) - 1)))

\* getAllAssets(): store.getAll(), then assets.sort((a, b) => b.createdAt - a.createdAt)
getAllAssets(st) == SortDesc(InKeyOrder(st, DOMAIN st))

\* assets.slice(0, 6): the thumbnails the popup renders.
ShownCount == 6
Shown == 1..(IF Len(assets) < ShownCount THEN Len(assets) ELSE ShownCount)

\* A click handler without the status test.
CanRequestUploadM(asset) == TRUE

\* handleUploadClick: onUpload is called only for a draft or failed asset.
CanRequestUpload(asset) == StatusOf(asset) = "draft" \/ StatusOf(asset) = "failed"

IdleUpload == [pc |-> "idle", id |-> 0, ok |-> FALSE]

\* The upload has been admitted and its outcome is not yet written.
Active(w) ==
  \/ up[w].pc \in {"transfer", "progress"}
  \/ (up[w].pc = "finishing" /\ upd[w].pc # "done")

\* The popup reloads: const assets = await indexedDBService.getAllAssets();
\* setAssets(assets) (loadInitialData, handleCapture, the UPLOAD_PROGRESS listener).
reloadAssets ==
  /\ assets' = getAllAssets(store)
  /\ UNCHANGED <<storeVars, apiVars, sessVars, up, acctVars, offVars, noteVars>>

\* A click on thumbnail k: handleUploadClick, then handleUpload sends the
\* UPLOAD_ASSET message, which submission w will handle.
handleUploadClick(k, w) ==
  /\ k \in Shown
  /\ up[w].pc = "idle"
  /\ CanRequestUpload(assets[k])
  /\ up' = [up EXCEPT ![w] = [IdleUpload EXCEPT !.pc = "queued", !.id = assets[k].id]]
  /\ UNCHANGED <<storeVars, apiVars, sessVars, assets, acctVars, offVars, noteVars>>

\* submitUpload's precondition: the asset exists and is draft or failed.
Admits(st, id) == id \in DOMAIN st /\ StatusOf(st[id]) \in {"draft", "failed"}

\* submitUpload(assetId): an asset that is not draft or failed is rejected;
\* otherwise it becomes uploading, in the same step.
submitUpload(w) ==
  /\ up[w].pc = "queued"
  /\ IF Admits(store, up[w].id)
     THEN /\ store' = put(store, Merge(store[up[w].id], [status |-> "uploading"]))
          /\ up' = [up EXCEPT ![w].pc = "transfer"]
     ELSE /\ up' = [up EXCEPT ![w].pc = "rejected"]
          /\ UNCHANGED store
  /\ UNCHANGED <<upd, deleted, apiVars, sessVars, assets, acctVars, offVars, noteVars>>

\* A progress update during transfer: metadata.uploadProgress is written.
uploadProgress(w) ==
  /\ up[w].pc = "transfer"
  /\ upd[w].pc \in {"idle", "done"}
  /\ upd' = StartCall(w, up[w].id, [metadata |-> [uploadProgress |-> 1]])
  /\ up' = [up EXCEPT ![w].pc = "progress"]
  /\ UNCHANGED <<store, deleted, apiVars, sessVars, assets, acctVars, offVars, noteVars>>

\* The progress write has returned; the transfer ends: on remote acceptance
\* the record becomes uploaded with its nid, on an error failed with the
\* classified cause.
uploadOutcome(w, ok, errorType) ==
  /\ up[w].pc = "progress"
  /\ upd[w].pc = "done"
  /\ upd' = StartCall(w, up[w].id,
                      IF ok THEN [status |-> "uploaded", metadata |-> [nid |-> 1]]
                      ELSE [status |-> "failed", metadata |-> [errorType |-> errorType]])
  /\ up' = [up EXCEPT ![w].pc = "finishing", ![w].ok = ok]
  /\ UNCHANGED <<store, deleted, apiVars, sessVars, assets, acctVars, offVars, noteVars>>

\* The outcome write has returned: a failed upload is over, an uploaded
\* record waits for its scheduled deletion.
uploadFinished(w) ==
  /\ up[w].pc = "finishing"
  /\ upd[w].pc = "done"
  /\ up' = [up EXCEPT ![w].pc = IF up[w].ok THEN "cleanup" ELSE "done"]
  /\ UNCHANGED <<storeVars, apiVars, sessVars, assets, acctVars, offVars, noteVars>>

(***************************************************************************)
(* Popup: the insufficient-credits notice                                  *)
(***************************************************************************)

\* The runs of checkCreditStatus: 0 is loadInitialData's, the others are
\* UPLOAD_PROGRESS messages being handled.
Checks == 0..MaxProcs

\* An asset whose upload failed for lack of credits.
CreditFailedAsset(id) ==
  [id |-> id, type |-> "image", createdAt |-> id, status |-> "failed",
   metadata |-> [width |-> 1, errorType |-> "insufficient_credits"]]

\* asset.status === 'failed' && asset.metadata?.errorType === 'insufficient_credits'
IsCreditError(asset) ==
  /\ StatusOf(asset) = "failed"
  /\ "metadata" \in DOMAIN asset
  /\ "errorType" \in DOMAIN asset.metadata
  /\ asset.metadata.errorType = "insufficient_credits"

\* currentAssets.some(...)
hasCreditError(currentAssets) ==
  \E k \in 1..Len(currentAssets) : IsCreditError(currentAssets[k])

\* A run: where it is parked, the showInsufficientCreditsNotification value
\* its closure captured, and the flag value its storage read was served.
IdleCheck == [pc |-> "idle", showSeen |-> FALSE, dismissed |-> FALSE]

\* loadInitialData reaches, or an UPLOAD_PROGRESS message starts,
\* `await indexedDBService.getAllAssets()`. The function runs in the closure
\* of the render that created it: the mount render for loadInitialData, the
\* current one for the listener (it is registered again when the state changes).
checkStart(h) ==
  /\ IF h = 0 THEN nt.h[h].pc = "idle" ELSE nt.h[h].pc \in {"idle", "done"}
  /\ nt' = [nt EXCEPT !.h[h] = [IdleCheck EXCEPT !.pc = "list",
                                                 !.showSeen = IF h = 0 THEN FALSE ELSE nt.show]]
  /\ UNCHANGED <<storeVars, apiVars, sessVars, popVars, acctVars, offVars>>

\* getAllAssets resolves: setAssets(assets), then checkCreditStatus(assets)
\* up to its storage read: it returns if the notice is showing (as its
\* closure sees it) or no asset has a credit error. The storage read is
\* served the flag as it is when the read is issued.
assetsListed(h) ==
  /\ nt.h[h].pc = "list"
  /\ assets' = getAllAssets(store)
  /\ nt' = IF ~nt.h[h].showSeen /\ hasCreditError(assets')
           THEN [nt EXCEPT !.h[h].pc = "flag", !.h[h].dismissed = nt.dismissed]
           ELSE [nt EXCEPT !.h[h].pc = "done"]
  /\ UNCHANGED <<storeVars, apiVars, sessVars, up, acctVars, offVars>>

\* hasInsufficientCreditsNotificationDismissed() resolves:
\* if (!dismissed) setShowInsufficientCreditsNotification(true)
dismissedRead(h) ==
  /\ nt.h[h].pc = "flag"
  /\ nt' = [nt EXCEPT !.h[h].pc = "done",
                      !.show = IF ~nt.h[h].dismissed THEN TRUE ELSE @]
  /\ UNCHANGED <<storeVars, apiVars, sessVars, popVars, acctVars, offVars>>

\* handleCloseNotification, on a click on the notice that is showing: the
\* notice is hidden and setInsufficientCreditsNotificationDismissed(true)
\* is issued (storage serves its operations in the order they are issued).
handleCloseNotification ==
  /\ nt.show /\ nt.closing # "persist"
  /\ nt' = [nt EXCEPT !.show = FALSE, !.closed = TRUE, !.dismissed = TRUE,
                      !.closing = "persist"]
  /\ UNCHANGED <<storeVars, apiVars, sessVars, popVars, acctVars, offVars>>

\* The storage write resolves and handleCloseNotification returns.
closePersisted ==
  /\ nt.closing = "persist"
  /\ nt' = [nt EXCEPT !.closing = "done"]
  /\ UNCHANGED <<storeVars, apiVars, sessVars, popVars, acctVars, offVars>>

NoticeInit ==
  nt = [show |-> FALSE, dismissed |-> FALSE, closed |-> FALSE, closing |-> "idle",
        h |-> [h \in Checks |-> IdleCheck]]

NextNotice ==
  \/ \E h \in Checks : checkStart(h)
  \/ \E h \in Checks : assetsListed(h)
  \/ \E h \in Checks : dismissedRead(h)
  \/ handleCloseNotification
  \/ closePersisted
  \/ \E i \in Ids : i \notin DOMAIN store /\ setAsset(NewAsset(i, i))

(***************************************************************************)
(* Offscreen document: addWatermark                                        *)
(***************************************************************************)

\* The ADD_WATERMARK requests in flight at once.
WmCalls == {1, 2}

\* A capture: its image (payload.dataUrl) and its time (payload.timestamp).
Captures ==
  { [dataUrl |-> "imgA", timestamp |-> "timeA"],
    [dataUrl |-> "imgB", timestamp |-> "timeB"] }

\* payload.width and payload.height.
Dims == { [width |-> 600, height |-> 400], [width |-> 2400, height |-> 1400] }

\* payload.includeTimestamp (boolean | undefined) and payload.timestampSize.
IncludeFlags == {"true", "false", None}
TimestampSizes == {"small", "medium", "large", None}

Payloads ==
  { [dataUrl |-> c.dataUrl, timestamp |-> c.timestamp,
     width |-> d.width, height |-> d.height,
     timestampSize |-> s, includeTimestamp |-> f] :
      c \in Captures, d \in Dims, s \in TimestampSizes, f \in IncludeFlags }

\* The 2d context state of a canvas that was just created or sized.
\* globalAlpha is in tenths.
DefaultContext ==
  [globalAlpha |-> 10, shadowBlur |-> 0, fillStyle |-> "#000000",
   font |-> "10px sans-serif"]

\* The canvas element before any call: 300 x 150, nothing drawn.
BlankCanvas == [width |-> 300, height |-> 150, layers |-> << >>, ctx |-> DefaultContext]

\* A canvas that is cleared and keeps its size and its context state.
SizeCanvasM(cv, payload) == [cv EXCEPT !.layers = << >>]

\* canvas.width = payload.width; canvas.height = payload.height: sizing a
\* canvas clears it and resets its context state.
SizeCanvas(cv, payload) ==
  [width |-> payload.width, height |-> payload.height, layers |-> << >>,
   ctx |-> DefaultContext]

\* What ctx.drawImage(img, 0, 0) paints: the image, under the alpha and
\* shadow in effect.
ImageLayer(cv, payload) ==
  [what |-> "image", source |-> payload.dataUrl,
   alpha |-> cv.ctx.globalAlpha, shadowBlur |-> cv.ctx.shadowBlur]

\* ctx.drawImage(img, 0, 0)
DrawImage(cv, payload) == [cv EXCEPT !.layers = @ \o <<ImageLayer(cv, payload)>>]

\* size: 'small' | 'medium' | 'large' = 'medium'
SizeOrDefault(size) == IF size = None THEN "medium" ELSE size

\* Twice sizeMultipliers[size] ({ small: 1.5, medium: 2, large: 2.5 }).
SizeMultiplier2(size) ==
  CASE size = "small" -> 3 [] size = "medium" -> 4 [] size = "large" -> 5

\* Math.max(20, Math.floor(ctx.canvas.height / 35))
BaseFontSize(cv) == IF cv.height \div 35 > 20 THEN cv.height \div 35 ELSE 20

\* The timestamp block drawTimestamp paints: the box at (20, 60) with
\* padding 16, the time in timeFontSize and the date in dateFontSize (both
\* texts formatted from `time`; the box width is their measured width plus
\* the padding). Sizes are kept in quarter pixels:
\* timeFontSize = baseFontSize * m, dateFontSize = baseFontSize * m / 2,
\* boxHeight = timeFontSize + dateFontSize + padding * 2 + 8.
TimestampLayer(cv, timestampStr, size) ==
  LET m2 == SizeMultiplier2(SizeOrDefault(size))
      base == BaseFontSize(cv)
  IN  [what |-> "timestamp", time |-> timestampStr, x |-> 20, y |-> 60,
       padding |-> 16,
       timeFontSize4 |-> 2 * base * m2,
       dateFontSize4 |-> base * m2,
       boxHeight4 |-> 3 * base * m2 + 4 * (16 * 2 + 8),
       alpha |-> cv.ctx.globalAlpha]

\* drawTimestamp(ctx, timestampStr, size): it sets every style it uses
\* except globalAlpha, resets the shadow, and leaves the date font and the
\* date fill style set.
drawTimestamp(cv, timestampStr, size) ==
  [cv EXCEPT !.layers = @ \o <<TimestampLayer(cv, timestampStr, size)>>,
             !.ctx = [@ EXCEPT !.shadowBlur = 0,
                               !.fillStyle = "rgba(26, 26, 26, 0.9)",
                               !.font = "400 dateFontSize"]]

\* if (payload.includeTimestamp !== false) drawTimestamp(...)
DrawsTimestamp(payload) == payload.includeTimestamp # "false"

\* Math.max(100, Math.floor(canvasWidth / 12))
LogoWidth(canvasWidth) ==
  IF canvasWidth \div 12 > 100 THEN canvasWidth \div 12 ELSE 100

\* The logo rectangle, bottom-right with a 20 px margin, drawn at alpha 0.7.
\* logoHeight = logoWidth * (157 / 828): heights are kept in 1/828 px.
LogoLayer(canvasWidth, canvasHeight) ==
  [what |-> "logo", width |-> LogoWidth(canvasWidth),
   height828 |-> LogoWidth(canvasWidth) * 157,
   x |-> canvasWidth - LogoWidth(canvasWidth) - 20,
   y828 |-> (canvasHeight - 20) * 828 - LogoWidth(canvasWidth) * 157,
   alpha |-> 7]

\* drawLogo after the logo has loaded: globalAlpha = 0.7, drawImage,
\* globalAlpha = 1.0.
drawLogo(cv, canvasWidth, canvasHeight) ==
  [cv EXCEPT !.layers = @ \o <<LogoLayer(canvasWidth, canvasHeight)>>,
             !.ctx = [@ EXCEPT !.globalAlpha = 10]]

\* A drawLogo whose catch rethrows.
drawLogoCatchM(error) == "thrown"

\* The catch of drawLogo: the failure is logged and drawLogo returns.
drawLogoCatch(error) == "skipped"

\* The event loadImage rejects with (img.onerror = reject).
ImageError == [kind |-> "Event", type |-> "error"]

\* A call: where it is parked, its payload, the (canvasWidth, canvasHeight)
\* arguments drawLogo was called with, and what it settled with.
IdleWatermark == [pc |-> "idle", payload |-> Null, logoArgs |-> Null, result |-> Null]

\* addWatermark(payload) up to `await loadImage(payload.dataUrl)`: without a
\* 2d context it throws.
addWatermark(c, payload, hasCtx) ==
  /\ wm[c].pc \in {"idle", "resolved", "rejected"}
  /\ wm' = [wm EXCEPT ![c] =
             IF hasCtx
             THEN [IdleWatermark EXCEPT !.pc = "loadImage", !.payload = payload]
             ELSE [IdleWatermark EXCEPT !.pc = "rejected", !.payload = payload,
                     !.result = [error |-> <<"Failed", "to", "get", "canvas", "context">>]]]
  /\ UNCHANGED <<storeVars, apiVars, sessVars, popVars, acctVars, canvas, noteVars>>

\* The source image of call c settles. Loaded: the canvas is sized, the
\* image is drawn, then the timestamp unless includeTimestamp is false, and
\* drawLogo(ctx, canvas.width, canvas.height) parks on loading the logo.
\* Failed: addWatermark rejects.
imageSettles(c, loaded) ==
  /\ wm[c].pc = "loadImage"
  /\ IF loaded
     THEN LET payload == wm[c].payload
              drawn == DrawImage(SizeCanvas(canvas, payload), payload)
          IN  /\ canvas' = IF DrawsTimestamp(payload)
                           THEN drawTimestamp(drawn, payload.timestamp, payload.timestampSize)
                           ELSE drawn
              /\ wm' = [wm EXCEPT ![c].pc = "loadLogo",
                                  ![c].logoArgs = [canvasWidth |-> canvas'.width,
                                                   canvasHeight |-> canvas'.height]]
     ELSE /\ wm' = [wm EXCEPT ![c].pc = "rejected", ![c].result = [error |-> ImageError]]
          /\ UNCHANGED canvas
  /\ UNCHANGED <<storeVars, apiVars, sessVars, popVars, acctVars, noteVars>>

\* The logo image of call c settles. Loaded: it is drawn. Failed: the catch
\* of drawLogo. Then canvas.toDataURL() (the canvas as it is now) is returned.
logoSettles(c, loaded) ==
  /\ wm[c].pc = "loadLogo"
  /\ IF loaded
     THEN /\ canvas' = drawLogo(canvas, wm[c].logoArgs.canvasWidth,
                                wm[c].logoArgs.canvasHeight)
          /\ wm' = [wm EXCEPT ![c].pc = "resolved", ![c].result = [dataUrl |-> canvas']]
     ELSE /\ UNCHANGED canvas
          /\ IF drawLogoCatch(ImageError) = "skipped"
             THEN wm' = [wm EXCEPT ![c].pc = "resolved", ![c].result = [dataUrl |-> canvas]]
             ELSE wm' = [wm EXCEPT ![c].pc = "rejected", ![c].result = [error |-> ImageError]]
  /\ UNCHANGED <<storeVars, apiVars, sessVars, popVars, acctVars, noteVars>>

\* What addWatermark(payload) composes when it runs alone on a canvas that
\* was never used.
Compose(payload, logoLoaded) ==
  LET drawn == DrawImage(SizeCanvas(BlankCanvas, payload), payload)
      stamped == IF DrawsTimestamp(payload)
                 THEN drawTimestamp(drawn, payload.timestamp, payload.timestampSize)
                 ELSE drawn
  IN  IF logoLoaded THEN drawLogo(stamped, stamped.width, stamped.height) ELSE stamped

OffscreenInit ==
  /\ wm = [c \in WmCalls |-> IdleWatermark]
  /\ canvas = BlankCanvas

NextWatermark ==
  \/ \E payload \in Payloads, hasCtx \in BOOLEAN : addWatermark(1, payload, hasCtx)
  \/ \E loaded \in BOOLEAN : imageSettles(1, loaded)
  \/ \E loaded \in BOOLEAN : logoSettles(1, loaded)

\* The payloads of two captures, taken with the default watermark settings.
PayloadsTwo ==
  { payload \in Payloads :
      payload.timestampSize = None /\ payload.includeTimestamp = None }

NextWatermarkTwo ==
  \/ \E c \in WmCalls, payload \in PayloadsTwo :
       wm[c].pc = "idle" /\ addWatermark(c, payload, TRUE)
  \/ \E c \in WmCalls, loaded \in BOOLEAN : imageSettles(c, loaded)
  \/ \E c \in WmCalls, loaded \in BOOLEAN : logoSettles(c, loaded)

(***************************************************************************)
(* Specifications                                                          *)
(***************************************************************************)

StoreInit ==
  /\ store = << >>
  /\ upd = [p \in Procs |-> IdleCall]
  /\ deleted = [i \in Ids |-> FALSE]

NextStore ==
  \/ \E i \in Ids : setAsset(NewAsset(i, i))
  \/ \E i \in Ids : deleteAsset(i)
  \/ \E p \in Procs, i \in Ids, u \in UpdateSet :
       upd[p].pc = "idle" /\ updateAssetCall(p, i, u)
  \/ \E p \in Procs : updateAssetRead(p)
  \/ \E p \in Procs : updateAssetWrite(p)

\* Partial<Asset> admits every field of Asset, id and createdAt included.
IdentityUpdates == { [id |-> 1], [createdAt |-> 0], [status |-> "uploading"] }

NextStoreAny ==
  \/ \E i \in Ids : setAsset(NewAsset(i, i))
  \/ \E i \in Ids : deleteAsset(i)
  \/ \E p \in Procs, i \in Ids, u \in IdentityUpdates :
       upd[p].pc = "idle" /\ updateAssetCall(p, i, u)
  \/ \E p \in Procs : updateAssetRead(p)
  \/ \E p \in Procs : updateAssetWrite(p)

NextStoreUpdates ==
  \/ \E i \in Ids : i \notin DOMAIN store /\ setAsset(NewAsset(i, i))
  \/ \E p \in Procs, i \in Ids, u \in UpdateSet :
       upd[p].pc = "idle" /\ updateAssetCall(p, i, u)
  \/ \E p \in Procs : updateAssetRead(p)
  \/ \E p \in Procs : updateAssetWrite(p)

NextList ==
  \/ \E i \in Ids, t \in Times : setAsset(NewAsset(i, t))
  \/ \E i \in Ids : deleteAsset(i)
  \/ reloadAssets

ApiInit ==
  /\ authToken = None
  /\ req = [r \in Reqs |-> IdleReq]
  /\ wire = {}

SessionInit ==
  /\ instance = FALSE
  /\ persisted = Null
  /\ ini = IdleInit
  /\ ca = [who \in {"init", "logout"} |-> "idle"]
  /\ call = [c \in Callers |-> "idle"]
  /\ lo = [raced |-> FALSE, quiet |-> FALSE]
  /\ lg = IdleLogin
  /\ ld = [saw |-> FALSE, initDone |-> FALSE]

PopupInit ==
  /\ assets = << >>
  /\ up = [w \in Procs |-> IdleUpload]

AccountInit == da = IdleDelete

Init ==
  /\ StoreInit /\ ApiInit /\ SessionInit /\ PopupInit /\ AccountInit /\ OffscreenInit
  /\ NoticeInit

\* The asset store driven by arbitrary callers.
SpecStore == Init /\ [][NextStore]_vars

\* The asset store with updates that name identity fields.
SpecStoreAny == Init /\ [][NextStoreAny]_vars

\* Captures and updateAsset calls only: a stored record changes only by
\* the write of an updateAsset call.
SpecStoreUpdates == Init /\ [][NextStoreUpdates]_vars

\* Captures at any times, deletions, and the popup listing the store.
SpecList == Init /\ [][NextList]_vars

NextReq ==
  \/ \E t \in Tokens : setAuthToken(t)
  \/ clearAuthToken
  \/ \E r \in Reqs : requestWithAuth(r)
  \/ \E r \in Reqs : requestPublic(r)
  \/ \E r \in Reqs : timerFires(r)
  \/ \E r \in Reqs, s \in {200} \cup HttpErrorStatuses, j \in BOOLEAN : fetchResolves(r, s, j)
  \/ \E r \in Reqs : fetchRejects(r)
  \/ \E r \in Reqs, ok \in BOOLEAN : bodyArrives(r, ok)
  \/ \E r \in Reqs, ok \in BOOLEAN, m \in ServerMessages : errorBodyArrives(r, ok, m)

\* The HTTP client driven by arbitrary callers, a server and the timer.
SpecReq == Init /\ [][NextReq]_vars

\* The same, with the timer of setTimeout: an armed timer that is not
\* cleared fires. Nothing obliges the server to answer or to finish a body.
SpecReqLive == Init /\ [][NextReq]_vars /\ \A r \in Reqs : WF_vars(timerFires(r))

NextAccount ==
  \/ \E t \in Tokens : setAuthToken(t)
  \/ clearAuthToken
  \/ deleteAccountCall
  \/ deleteAccountDeleted
  \/ \E e \in RequestErrors : deleteAccountFailed(e)
  \/ \E o \in {"token", "none", "throws"} : deleteAccountGoogle(o)
  \/ deleteAccountGoogleRemoved

\* An account deletion, with logins and logouts setting and clearing the
\* ApiClient token around it.
SpecAccount == Init /\ [][NextAccount]_vars

\* ADD_WATERMARK requests handled one after another on the one canvas.
SpecWatermark == Init /\ [][NextWatermark]_vars

\* Two ADD_WATERMARK requests in flight at once on the one canvas.
SpecWatermarkTwo == Init /\ [][NextWatermarkTwo]_vars

\* The popup opened while asset 1, failed for lack of credits, is stored.
InitNotice ==
  /\ store = [i \in {1} |-> CreditFailedAsset(i)]
  /\ upd = [p \in Procs |-> IdleCall]
  /\ deleted = [i \in Ids |-> FALSE]
  /\ ApiInit /\ SessionInit /\ PopupInit /\ AccountInit /\ OffscreenInit /\ NoticeInit

\* The notice, its dismissal, and the popup's reloads.
SpecNotice == InitNotice /\ [][NextNotice]_vars

\* A process start with any persisted credential state.
InitAuth ==
  /\ StoreInit /\ ApiInit
  /\ instance = FALSE
  /\ persisted \in PersistedInit
  /\ ini = IdleInit
  /\ ca = [who \in {"init", "logout"} |-> "idle"]
  /\ call = [c \in Callers |-> "idle"]
  /\ lo = [raced |-> FALSE, quiet |-> FALSE]
  /\ lg = IdleLogin
  /\ ld = [saw |-> FALSE, initDone |-> FALSE]
  /\ PopupInit /\ AccountInit /\ OffscreenInit /\ NoticeInit

NextAuth ==
  \/ \E c \in Callers : getNumbersApi(c)
  \/ \E ok \in BOOLEAN : initGetAuth(ok)
  \/ initValidated
  \/ \E e \in RequestErrors : initValidationFailed(e)
  \/ \E ok \in BOOLEAN : initSetAuth(ok)
  \/ \E who \in {"init", "logout"}, o \in {"token", "none", "throws"} : clearAuthGoogle(who, o)
  \/ \E who \in {"init", "logout"} : clearAuthGoogleRemoved(who)
  \/ \E who \in {"init", "logout"}, ok \in BOOLEAN : clearAuthStorage(who, ok)
  \/ logout
  \/ \E k \in LoginKinds : login(k)
  \/ \E t \in Tokens : loginToken(t)
  \/ loginNoToken
  \/ \E e \in RequestErrors : loginRequestFailed(e)
  \/ loginProfile
  \/ \E ok \in BOOLEAN : loginSetAuth(ok)
  \/ loadInitialData

\* The session manager: one process start, the page's load, a logout and a
\* login, the backend and the storage answering in any way.
SpecAuth == InitAuth /\ [][NextAuth]_vars

\* The classified causes the upload path writes here.
UploadErrorTypes == {"network_error"}

NextUpload ==
  \/ \E i \in Ids : i \notin DOMAIN store /\ ~deleted[i] /\ setAsset(NewAsset(i, i))
  \/ reloadAssets
  \/ \E k \in 1..MaxIds, w \in Procs : handleUploadClick(k, w)
  \/ \E w \in Procs : submitUpload(w)
  \/ \E w \in Procs : uploadProgress(w)
  \/ \E w \in Procs, ok \in BOOLEAN, e \in UploadErrorTypes : uploadOutcome(w, ok, e)
  \/ \E w \in Procs : uploadFinished(w)
  \/ \E w \in Procs : updateAssetRead(w)
  \/ \E w \in Procs : updateAssetWrite(w)
  \/ \E w \in Procs :
       up[w].pc = "cleanup" /\ up[w].id \in DOMAIN store /\ deleteAsset(up[w].id)

\* Captures, the popup and the upload path over the asset store.
SpecUpload == Init /\ [][NextUpload]_vars

(***************************************************************************)
(* Asset store: properties                                                 *)
(***************************************************************************)

\* C1: updateAsset(id, updates) whose read finds no record under id rejects
\* with the not-found error at that step, without touching the store, and a
\* call only ever reaches its write with the record it read.
C1_UpdateMissingRejects ==
  /\ [](\A p \in Procs : upd[p].pc = "write" => upd[p].asset # Null)
  /\ [][\A p \in Procs :
          (upd[p].pc = "read" /\ upd'[p].pc # "read" /\ upd[p].id \notin DOMAIN store)
            => (upd'[p].pc = "done" /\ upd'[p].result = "NotFound" /\ store' = store)]_vars

\* A call on an absent id has returned not-found while another record is stored.
C1_Witness ==
  \E p \in Procs :
    /\ upd[p].pc = "done" /\ upd[p].result = "NotFound"
    /\ upd[p].id \notin DOMAIN store
    /\ DOMAIN store # {}

\* C2: once deleteAsset(id) has completed (and no setAsset(id) followed) and
\* no updateAsset call on id is still in flight, id is not in the store.
C2_UpdateNeverCreates ==
  \A i \in Ids :
    (deleted[i] /\ \A p \in Procs : upd[p].pc \in {"read", "write"} => upd[p].id # i)
      => i \notin DOMAIN store

\* C13: an updateAsset(id, updates) that succeeds on a stored record, for
\* any updates, leaves the set of stored ids as it was, the record under id
\* with the id and createdAt it had, and every other record untouched.
C13_UpdateKeepsIdentity ==
  [][ \A p \in Procs :
        ( /\ upd[p].pc = "write" /\ upd'[p].pc = "done" /\ upd'[p].result = "ok"
          /\ upd[p].id \in DOMAIN store )
        => ( /\ DOMAIN store' = DOMAIN store
             /\ store'[upd[p].id].id = store[upd[p].id].id
             /\ store'[upd[p].id].createdAt = store[upd[p].id].createdAt
             /\ \A j \in DOMAIN store \ {upd[p].id} : store'[j] = store[j] ) ]_vars

\* C14: getAllAssets returns exactly the records in the store, each once,
\* with createdAt never increasing along the result; the popup's list is
\* such a result whenever it is reloaded.
C14_ListingSortedAndExact ==
  /\ [](LET r == getAllAssets(store) IN
          /\ Len(r) = Cardinality(DOMAIN store)
          /\ {r[k] : k \in 1..Len(r)} = {store[i] : i \in DOMAIN store}
          /\ \A k \in 1..(Len(r) - 1) : r[k].createdAt >= r[k + 1].createdAt)
  /\ [][assets' # assets =>
          /\ {assets'[k] : k \in 1..Len(assets')} = {store[i] : i \in DOMAIN store}
          /\ \A k \in 1..(Len(assets') - 1) :
                assets'[k].createdAt >= assets'[k + 1].createdAt]_vars

\* The popup lists a store whose key order is not its createdAt order.
C14_Witness ==
  /\ Cardinality(DOMAIN store) = MaxIds
  /\ assets = getAllAssets(store)
  /\ assets[1].id > assets[2].id
  /\ assets[1].createdAt > assets[2].createdAt

\* C15: deleteAsset is idempotent: deleting an id that is not stored leaves
\* the store unchanged, so a second deleteAsset(id) in a row gives the same
\* store as the first.
C15_DeleteIdempotent ==
  /\ [](\A i \in Ids :
          /\ delete(delete(store, i), i) = delete(store, i)
          /\ i \notin DOMAIN store => delete(store, i) = store)
  /\ [][ \A i \in Ids :
           (deleted'[i] /\ ~deleted[i])
             => ( /\ i \notin DOMAIN store'
                  /\ \A j \in DOMAIN store \ {i} : j \in DOMAIN store' /\ store'[j] = store[j]
                  /\ i \notin DOMAIN store => store' = store ) ]_vars

\* deleteAsset(i) has completed, i is absent and another record is still stored.
C15_Witness ==
  \E i, j \in Ids :
    /\ deleted[i] /\ i \notin DOMAIN store
    /\ ~deleted[j] /\ j \in DOMAIN store

\* C27: no update is lost: the write of a successful updateAsset call leaves
\* every top-level field its updates do not name as it is stored, that is,
\* as another updateAsset call on the id wrote it.
C27_NoLostUpdate ==
  [][ \A p \in Procs :
        ( /\ upd[p].pc = "write" /\ upd'[p].pc = "done" /\ upd'[p].result = "ok"
          /\ upd[p].id \in DOMAIN store )
        => \A f \in DOMAIN store[upd[p].id] \ DOMAIN upd[p].updates :
             /\ f \in DOMAIN store'[upd[p].id]
             /\ store'[upd[p].id][f] = store[upd[p].id][f] ]_vars

\* C30: updateAsset(id, updates) on the record as stored changes only what
\* updates names: every top-level field absent from updates, and every
\* metadata entry that updates.metadata does not mention, keeps its value.
C30_UpdateTouchesOnlyNamed ==
  [][ \A p \in Procs :
        ( /\ upd[p].pc = "write" /\ upd'[p].pc = "done" /\ upd'[p].result = "ok"
          /\ upd[p].id \in DOMAIN store /\ store[upd[p].id] = upd[p].asset )
        => LET old == store[upd[p].id]
               new == store'[upd[p].id]
               updates == upd[p].updates
           IN  /\ \A f \in DOMAIN old \ DOMAIN updates :
                    f \in DOMAIN new /\ new[f] = old[f]
               /\ ("metadata" \in DOMAIN old /\ "metadata" \in DOMAIN updates)
                    => \A e \in DOMAIN old.metadata \ DOMAIN updates.metadata :
                         /\ "metadata" \in DOMAIN new
                         /\ e \in DOMAIN new.metadata
                         /\ new.metadata[e] = old.metadata[e] ]_vars

(***************************************************************************)
(* ApiClient: properties                                                   *)
(***************************************************************************)

\* C7: with no token set, an authenticated request fails locally and nothing
\* is sent: every request that requestWithAuth hands to fetch carries an
\* Authorization header.
C7_NoTokenNoRequest ==
  \A w \in wire : w.withAuth => "Authorization" \in DOMAIN w.headers

\* C8: a request call has one outcome, produced by whichever of the timer
\* and the response came first: a call that got its response head is never
\* settled by the timer, and a call settled by the timer got no response.
C8_TimeoutXorResponse ==
  \A r \in Reqs :
    /\ Cardinality(req[r].outcomes) <= 1
    /\ (req[r].pc = "settled") = (req[r].outcomes # {})
    /\ "timeout" \in req[r].outcomes => ~req[r].responded
    /\ req[r].responded => ~req[r].timer

\* A call was settled by its response while the timer had been armed.
C8_Witness ==
  \E r \in Reqs :
    /\ req[r].pc = "settled" /\ req[r].responded
    /\ req[r].outcomes = {"response"}
    /\ req[r].result.kind = "ApiError" /\ req[r].result.statusCode = 503

\* C29: every request call that was made eventually settles, given that an
\* armed timer eventually fires, whether no response ever arrives or the
\* response head arrives and the body never completes.
C29_RequestEventuallySettles ==
  \A r \in Reqs : (req[r].pc # "idle") ~> (req[r].pc = "settled")

(***************************************************************************)
(* Session manager: properties                                             *)
(***************************************************************************)

\* No login has touched the credential.
NoLogin == call["login"] \in {"idle", "api", "ready"}

\* No logout has touched the credential.
NoLogout == call["logout"] \in {"idle", "api", "ready"}

\* C3: a logout that ran while initialize() was waiting for its validation
\* call is not undone by the validation succeeding: once both have finished,
\* the in-memory token and the persisted credential are absent.
C3_LogoutNotUndone ==
  ( /\ lo.raced /\ call["logout"] = "done"
    /\ ini.pc = "done" /\ ini.user # Null /\ ini.err = Null
    /\ NoLogin )
    => (authToken = None /\ persisted = Null)

\* C4: a login, signup or loginGoogle that rejects, with nothing else
\* running, leaves the ApiClient token and the persisted credential as they
\* were when it was called.
C4_FailedLoginInstallsNothing ==
  ( /\ call["login"] = "done" /\ lg.result = "rejected"
    /\ lg.quiet /\ call["logout"] = "idle" )
    => (authToken = lg.prior.token /\ persisted = lg.prior.persisted)

\* The validation errors C5 is about: transport failure (status 0), the
\* request timeout, and any HTTP status 500..599.
TransientError(error) ==
  \/ error.statusCode = 0
  \/ error = ApiError(TimeoutMessage, 408)
  \/ (error.statusCode >= 500 /\ error.statusCode <= 599)

\* C5: when the validation call of initialize() fails with a transient
\* error, initialize() finishes at that step without touching the token or
\* the persisted credential; with no logout or login involved, the restored
\* token is still active and the persisted credential is the one read.
C5_TransientKeepsAuth ==
  /\ []( ( /\ ini.pc = "done" /\ ini.err # Null /\ ini.err.kind = "ApiError"
           /\ TransientError(ini.err) /\ NoLogin /\ NoLogout )
         => (authToken = ini.auth.token /\ persisted = ini.auth /\ HasToken(persisted)) )
  /\ [][ ( /\ ini.pc = "validate" /\ ini'.pc # "validate" /\ ini'.err # Null
           /\ ini'.err.kind = "ApiError" /\ TransientError(ini'.err) )
         => (ini'.pc = "done" /\ authToken' = authToken /\ persisted' = persisted) ]_vars

\* initialize() has finished after a transport failure, a timeout and a 503.
C5_Witness ==
  /\ ini.pc = "done" /\ ini.err # Null /\ NoLogin /\ NoLogout
  /\ ini.err \in {ApiError(FetchFailedMessage, 0), ApiError(TimeoutMessage, 408),
                  ApiError(DefaultMessage, 503)}
  /\ authToken = "t1" /\ persisted = CachedAuth

\* C6: when the validation call of initialize() fails with 401 or 403,
\* whatever the message, or with any other error that is not transient, then
\* after initialize() returns (no login involved) the in-memory token and the
\* persisted credential are both absent.
C6_AuthErrorClears ==
  ( /\ ini.pc = "done" /\ ini.err # Null /\ ini.err.kind = "ApiError"
    /\ ~TransientError(ini.err) /\ NoLogin )
    => (authToken = None /\ persisted = Null)

\* C11: a login, signup or loginGoogle that resolves with a returned
\* auth_token, nothing else running, leaves that token active in the
\* ApiClient and persisted together with the email and username of the fresh
\* profile; the profile request was sent with the new token, after it was set.
C11_LoginInstallsToken ==
  /\ []( ( /\ call["login"] = "done" /\ lg.result = "resolved" /\ lg.token # None
           /\ lg.quiet /\ call["logout"] = "idle" )
         => ( /\ authToken = lg.token
              /\ persisted = [token |-> lg.token, email |-> FreshUser.email,
                               username |-> FreshUser.username] ) )
  /\ [][ (call["login"] = "token" /\ call'["login"] = "profile")
         => ( /\ authToken' = lg'.token
              /\ [withAuth |-> TRUE, headers |-> buildAuthHeaders(authToken')] \in wire' ) ]_vars

\* A login over a kept session: another token and the fresh profile have
\* replaced the cached credential.
C11_Witness ==
  /\ call["login"] = "done" /\ lg.result = "resolved" /\ lg.quiet
  /\ call["logout"] = "idle"
  /\ lg.prior.persisted = CachedAuth /\ lg.token = "t2"
  /\ persisted = [token |-> "t2", email |-> "e1", username |-> "u1"]

\* C28: whenever login, signup or loginGoogle has resolved, nothing else
\* running, the session is authenticated: the ApiClient holds a token and a
\* persisted credential with a token exists, whatever body the token
\* endpoint returned with its success status.
C28_ResolvedLoginAuthenticated ==
  ( /\ call["login"] = "done" /\ lg.result = "resolved"
    /\ lg.quiet /\ call["logout"] = "idle" )
  => (authToken # None /\ HasToken(persisted))

\* C12: logout (NumbersApiManager.clearAuth) never rejects, whatever the
\* Google cleanup and the persisted-store clear do, and from its call on
\* (initialize() finished, no login) the in-memory token is absent.
C12_LogoutNeverFails ==
  /\ call["logout"] # "failed"
  /\ ( /\ call["logout"] \in {"clearAuth", "done", "failed"}
       /\ lo.quiet /\ NoLogin )
     => authToken = None

\* C16: initialize() never rejects: whatever the credential read, the
\* validation call, the credential write and the clearing do, once it has
\* finished its promise is resolved, and getNumbersApi() returns the manager.
C16_InitializeNeverRejects ==
  /\ ini.result # "rejected"
  /\ ini.pc = "done" => ini.result = "resolved"
  /\ ini.pc # "done" => ini.result = None

\* initialize() resolved although clearing the rejected credential failed.
C16_Witness ==
  /\ ini.pc = "done" /\ ini.result = "resolved"
  /\ ini.err # Null /\ ca["init"] = "failed"
  /\ HasManager("loader") /\ call["loader"] = "api"

\* C17: initialize() with a persisted token makes that token the active
\* ApiClient token before it issues the validation request, which carries
\* it; the token is active while validation is pending; and initialize()
\* issues one validation request.
C17_TokenSetBeforeValidation ==
  /\ [](ini.sent <= 1)
  /\ []((ini.auth # Null) = (ini.sent = 1))
  /\ []((ini.pc = "validate" /\ NoLogin /\ NoLogout) => authToken = ini.auth.token)
  /\ [][ (ini.pc = "getAuth" /\ ini'.pc = "validate")
         => ( /\ HasToken(persisted) /\ authToken' = persisted.token
              /\ [withAuth |-> TRUE,
                   headers |-> [ContentType |-> "application/json",
                                Authorization |-> persisted.token]] \in wire' ) ]_vars

\* A second caller saw isAuthenticated() true while validation was pending.
C17_Witness ==
  /\ ini.pc = "validate" /\ ini.sent = 1 /\ authToken = "t1"
  /\ call["loader"] = "done" /\ ld.saw /\ ~ld.initDone

\* C18: initialize() that finds no persisted credential, or a record without
\* a token, finishes at once: it sets no token, sends no validation request
\* and leaves the persisted state alone.
C18_NoCredentialStaysOut ==
  /\ [][ (ini.pc = "getAuth" /\ ini'.pc # "getAuth" /\ ~HasToken(persisted))
         => ( /\ ini'.pc = "done" /\ ini'.sent = 0
              /\ authToken' = authToken /\ wire' = wire /\ persisted' = persisted ) ]_vars
  /\ []( (ini.pc = "done" /\ ini.auth = Null /\ NoLogin)
         => (authToken = None /\ wire = {} /\ ini.sent = 0) )
  /\ []( (ini.pc = "done" /\ ini.auth = Null /\ NoLogin /\ NoLogout)
         => persisted \in PersistedInit )

\* initialize() has finished over a record without a token; the page then
\* saw an unauthenticated session.
C18_Witness ==
  /\ ini.pc = "done" /\ ini.auth = Null
  /\ persisted = [email |-> "e0", username |-> "u0"]
  /\ authToken = None /\ wire = {}
  /\ call["loader"] = "done" /\ ~ld.saw /\ ld.initDone

\* C19: when deleteAccount() resolves, the ApiClient token is already
\* absent at that moment; when the DELETE request fails, deleteAccount
\* rejects and the token is as it was.
C19_DeleteAccountClears ==
  /\ [](da.result = "resolved" => da.atResolve = None)
  /\ [][ (da.pc = "delete" /\ da'.pc # "delete")
         => \/ da'.result = "resolved" /\ authToken' = None
            \/ da'.result = "rejected" /\ da'.error # Null /\ authToken' = authToken ]_vars

\* deleteAccount() has resolved, the token it was called with is gone, and
\* the Google cleanup of its clearAuth() is still pending.
C19_Witness ==
  /\ da.result = "resolved" /\ da.pc = "google"
  /\ da.prior = "t1" /\ authToken = None

\* C24: however many getNumbersApi() calls are made, overlapping or not,
\* one NumbersApiManager at most is constructed, initialize() is started
\* once at most, and a caller that has the manager has that one instance.
C24_LazySingleton ==
  /\ ini.made <= 1 /\ ini.runs <= 1
  /\ instance = (ini.made = 1)
  /\ \A c \in Callers : call[c] # "idle" => (instance /\ ini.made = 1 /\ ini.runs = 1)

\* A second call returned the instance while the first call's initialize()
\* was still validating.
C24_Witness ==
  /\ call["loader"] = "api" /\ ini.pc = "validate"
  /\ call["logout"] = "ready" /\ call["login"] = "ready"
  /\ ini.made = 1 /\ ini.runs = 1

\* C25: a getNumbersApi() call returns the manager only once initialize()
\* has completed, also when it is made while an earlier call's initialize()
\* is in progress.
C25_ManagerOnlyAfterInitialize ==
  [][ \A c \in Callers :
        (call[c] = "idle" /\ call'[c] = "ready") => ini.pc = "done" ]_vars

(***************************************************************************)
(* Upload path: properties                                                 *)
(***************************************************************************)

\* The status lifecycle of 4.2.
Edges ==
  { <<"draft", "uploading">>, <<"uploading", "uploaded">>,
    <<"uploading", "failed">>, <<"failed", "uploading">> }

C22_PopupRequestsOnlyUploadable ==
  [][ \A w \in Procs :
        (up[w].pc = "idle" /\ up'[w].pc = "queued")
          => /\ \E k \in Shown :
                  /\ assets[k].id = up'[w].id
                  /\ StatusOf(assets[k]) \in {"draft", "failed"}
             /\ \A k \in Shown :
                  StatusOf(assets[k]) \in {"uploading", "uploaded"}
                    => assets[k].id # up'[w].id ]_vars

\* A request was sent for a draft while the popup shows another asset as
\* uploading.
C22_Witness ==
  \E w \in Procs, k, j \in Shown :
    /\ up[w].pc = "queued" /\ assets[k].id = up[w].id
    /\ StatusOf(assets[k]) = "draft"
    /\ StatusOf(assets[j]) = "uploading"

\* C23: once the user has closed the insufficient-credits notice it is not
\* shown again (the dismissed flag is never reset here), whatever
\* UPLOAD_PROGRESS messages and loadInitialData are in flight.
C23_ClosedNoticeStaysClosed == nt.closed => ~nt.show

(***************************************************************************)
(* Offscreen document: properties                                          *)
(***************************************************************************)

\* C20: in addWatermark a logo that fails to load is not fatal and only the
\* logo is skipped: once the source image is drawn the call resolves, and
\* what it returns is the source image, then the timestamp block unless
\* includeTimestamp is false, then the logo if it loaded.
C20_LogoFailureSkipsLogoOnly ==
  /\ [][ \A c \in WmCalls :
           (wm[c].pc = "loadLogo" /\ wm'[c].pc # "loadLogo") => wm'[c].pc = "resolved" ]_vars
  /\ []( \A c \in WmCalls : wm[c].pc = "resolved" =>
           LET layers == wm[c].result.dataUrl.layers
               payload == wm[c].payload
           IN
             /\ Len(layers) >= 1 /\ layers[1].what = "image"
             /\ layers[1].source = payload.dataUrl
             /\ DrawsTimestamp(payload) =>
                  ( /\ Len(layers) >= 2 /\ layers[2].what = "timestamp"
                    /\ layers[2].time = payload.timestamp )
             /\ \A k \in 1..Len(layers) :
                  layers[k].what = "timestamp" => DrawsTimestamp(payload) )

\* A call with includeTimestamp left out has returned the image with the
\* timestamp and no logo.
C20_Witness ==
  /\ wm[1].pc = "resolved" /\ wm[1].payload.includeTimestamp = None
  /\ Len(wm[1].result.dataUrl.layers) = 2
  /\ wm[1].result.dataUrl.layers[1].what = "image"
  /\ wm[1].result.dataUrl.layers[2].what = "timestamp"

\* C21: what a call returns is what its payload composes on a canvas that
\* was never used (with or without the logo, as the logo loaded or not), so
\* two calls with the same payload return the same layout whatever an
\* earlier call left on the canvas.
C21_ComposerDeterministic ==
  \A c \in WmCalls :
    wm[c].pc = "resolved" =>
      wm[c].result.dataUrl \in {Compose(wm[c].payload, TRUE), Compose(wm[c].payload, FALSE)}

\* A small capture without timestamp has been composed, logo included, and
\* is what the canvas now holds.
C21_Witness ==
  /\ wm[1].pc = "resolved"
  /\ wm[1].payload.width = 600 /\ wm[1].payload.includeTimestamp = "false"
  /\ wm[1].result.dataUrl = Compose(wm[1].payload, TRUE)
  /\ canvas.width = 600 /\ Len(canvas.layers) = 2

\* C26: in every interleaving of two addWatermark calls, what a call returns
\* is composed from its own source image, dimensions and timestamp.
C26_CallsIsolated ==
  \A c \in WmCalls :
    wm[c].pc = "resolved" =>
      LET cv == wm[c].result.dataUrl IN
        /\ cv.width = wm[c].payload.width /\ cv.height = wm[c].payload.height
        /\ \A k \in 1..Len(cv.layers) :
             /\ cv.layers[k].what = "image" => cv.layers[k].source = wm[c].payload.dataUrl
             /\ cv.layers[k].what = "timestamp" => cv.layers[k].time = wm[c].payload.timestamp

====
